---- MODULE Spec2Model ----
(***************************************************************************)
(* Model of the chess relay of chess_game/consumers.py.                    *)
(*                                                                         *)
(* Every websocket connection is one ChessGameConsumer instance with its   *)
(* own chess.Board (self.board); the only state the consumers of a room    *)
(* share is the document of the room in games_collection and the channel   *)
(* layer group.  The handlers are coroutines of one event loop: control    *)
(* passes from one consumer to another only at an await, and the pymongo   *)
(* and chess.engine calls are blocking calls.  One consumer runs one       *)
(* handler at a time.  An exception that no handler catches ends the       *)
(* consumer.                                                               *)
(*                                                                         *)
(* The rules library is modelled on a fragment of chess: white may play    *)
(* e4, d4, Qh5 and black f6, g5, each at most once, which contains the     *)
(* mate 1.e4 f6 2.d4 g5 3.Qh5#.  Replies that leave the fragment (after a  *)
(* Qh5 that is not mate) are not explored.  Connections are numbered in the *)
(* order they connect and rooms in the order they are first joined.  At    *)
(* most one call to the store, the engine or the socket fails in a run.    *)
(***************************************************************************)
EXTENDS Naturals, FiniteSets, Sequences, TLC

\* Number of websocket connections (consumer instances).
MaxSessions == 2
\* Number of room names.
MaxRooms == 2
\* Number of client moves accepted in one run, over all connections.
MaxMoves == 3

Sessions == 1..MaxSessions
Rooms == 1..MaxRooms
\* self.room_name before connect has set it.
NoRoom == 0

WHITE == "w"
BLACK == "b"

WhiteMoves == {"e4", "d4", "Qh5"}
BlackMoves == {"f6", "g5"}
Moves == WhiteMoves \cup BlackMoves
\* What a client may put in the 'move' field: the moves and a string that
\* is no move at all.
Inputs == Moves \cup {"zz"}
\* result.move of an engine that has no move to play.
NoMove == "none"

VARIABLES
    pc,                \* the statement each consumer executes next
    room_name,         \* self.room_name
    board,             \* self.board
    result,            \* result.move inside bot_move
    games_collection,  \* per room name, the fens of its document (none or one)
    groups,            \* channel layer: the channels added to each room group
    outbox,            \* the messages the consumer passed to self.send, in order
    running,           \* the consumers that hold the event loop: one or none
    error,             \* the call whose exception ended the consumer
    accepted           \* history: the number of client moves push_san accepted

vars == <<pc, room_name, board, result, games_collection, groups, outbox,
          running, error, accepted>>

----------------------------------------------------------------------------
\* chess.Board

\* chess.Board(): the starting position, white to move, no move on the stack.
Board == [w |-> {}, b |-> {}, turn |-> WHITE, move_stack |-> <<>>]

\* board.fen(): the position and the side to move; the move stack is not
\* part of it.
fen(bd) == [w |-> bd.w, b |-> bd.b, turn |-> bd.turn]

\* board.set_fen(f): the position of f, with the move stack cleared.
set_fen(f) == [w |-> f.w, b |-> f.b, turn |-> f.turn, move_stack |-> <<>>]

\* board.is_game_over(): black is mated by Qh5 once f6 and g5 are played.
is_game_over(bd) == bd.turn = BLACK /\ "Qh5" \in bd.w /\ bd.b = {"f6", "g5"}

\* board.legal_moves, within the fragment.  Qh5 needs the e-pawn out of the
\* way; after Qh5 black is mated, in check (f6 played) or pinned (f7).
legal_moves(bd) ==
    IF bd.turn = WHITE
    THEN {m \in WhiteMoves \ bd.w : m = "Qh5" => "e4" \in bd.w}
    ELSE IF "Qh5" \in bd.w THEN {} ELSE BlackMoves \ bd.b

\* board.push(m): play m for the side to move.
push(bd, m) ==
    [w |-> IF m \in WhiteMoves THEN bd.w \cup {m} ELSE bd.w,
     b |-> IF m \in BlackMoves THEN bd.b \cup {m} ELSE bd.b,
     turn |-> IF bd.turn = WHITE THEN BLACK ELSE WHITE,
     move_stack |-> Append(bd.move_stack, m)]

\* board.push_san(m) raises ValueError unless m is a legal move of the side
\* to move.
push_san_raises(bd, m) == m \notin legal_moves(bd)

----------------------------------------------------------------------------
\* The event loop

\* AwaitPoints, had update_one been an awaited call of an async driver.
AwaitPointsAsyncStore ==
    {"accept", "find_one", "after_send", "update_one", "bot_update_one"}

\* AwaitPoints, had update_one been awaited (an async driver): the handler
\* is suspended between the write and the send.
AwaitPointsAwaitedStore ==
    {"accept", "find_one", "after_send", "receive_send", "bot_send"}

\* The statements a coroutine is suspended in front of: the ones that follow
\* an await (group_add, accept and send are awaited; find_one, update_one,
\* popen_uci and engine.play are not).
AwaitPoints == {"accept", "find_one", "after_send"}

\* Where no handler of the consumer is running.
Idle == {"new", "ready", "closed", "crashed"}

\* Who holds the event loop once consumer s stands in front of statement l.
Holder(s, l) == IF l \in AwaitPoints \cup Idle THEN {} ELSE {s}

\* Consumer s may take a step.
Scheduled(s) == running \subseteq {s}

\* Consumer s goes on to statement l.
Goto(s, l) ==
    /\ pc' = [pc EXCEPT ![s] = l]
    /\ running' = Holder(s, l)

\* An exception of call c leaves the handler of s uncaught.
Raise(s, c) ==
    /\ pc' = [pc EXCEPT ![s] = "crashed"]
    /\ error' = [error EXCEPT ![s] = c]
    /\ running' = {}

\* The consumers ended by a call that failed (push(None) aside, which raises
\* by itself).
Faulted == {s \in Sessions : error[s] \notin {"none", "push"}}

\* Call c of consumer s raises: the store, the engine or the socket fails.
\* Single-fault assumption: one such call fails in a run.
Fault(s, c) ==
    /\ Faulted = {}
    /\ Raise(s, c)

----------------------------------------------------------------------------
Init ==
    /\ pc = [s \in Sessions |-> "new"]
    /\ room_name = [s \in Sessions |-> NoRoom]
    /\ board = [s \in Sessions |-> Board]
    /\ result = [s \in Sessions |-> NoMove]
    /\ games_collection = [r \in Rooms |-> {}]
    /\ groups = [r \in Rooms |-> {}]
    /\ outbox = [s \in Sessions |-> <<>>]
    /\ running = {}
    /\ error = [s \in Sessions |-> "none"]
    /\ accepted = 0

----------------------------------------------------------------------------
\* send_game_state

\* game_state, had the test of the turn been the wrong way round.
game_stateSwapped(bd) ==
    [fen |-> fen(bd), turn |-> IF bd.turn = WHITE THEN "Black" ELSE "White"]

\* The message of send_game_state for board bd.
game_state(bd) ==
    [fen |-> fen(bd), turn |-> IF bd.turn = BLACK THEN "Black" ELSE "White"]

\* await self.send(...): the message goes to the socket of s alone.
send_game_state(s) ==
    outbox' = [outbox EXCEPT ![s] = Append(@, game_state(board[s]))]

----------------------------------------------------------------------------
\* connect

\* room_name from the url, then await group_add.
Connect(s, r) ==
    /\ pc[s] = "new"
    /\ \A t \in Sessions : t < s => pc[t] # "new"
    /\ \A q \in Rooms : q < r => \E t \in Sessions : room_name[t] = q
    /\ Scheduled(s)
    /\ room_name' = [room_name EXCEPT ![s] = r]
    /\ groups' = [groups EXCEPT ![r] = @ \cup {s}]
    /\ Goto(s, "accept")
    /\ UNCHANGED <<board, result, games_collection, outbox, error, accepted>>

\* await self.accept()
Accept(s) ==
    /\ pc[s] = "accept"
    /\ Scheduled(s)
    /\ Goto(s, "find_one")
    /\ UNCHANGED <<room_name, board, result, games_collection, groups, outbox,
                   error, accepted>>

\* LoadedBoard, had connect not resumed the stored game.
LoadedBoardFresh(docs) == Board

\* self.board after the lines 22-26: a new board, set to the fen of the
\* room's document when there is one.
LoadedBoard(docs) ==
    IF docs = {} THEN Board ELSE set_fen(CHOOSE f \in docs : TRUE)

\* board = chess.Board(); find_one; set_fen.  find_one may raise.
ConnectLoad(s) ==
    /\ pc[s] = "find_one"
    /\ Scheduled(s)
    /\ \/ /\ board' = [board EXCEPT ![s] = LoadedBoard(games_collection[room_name[s]])]
          /\ Goto(s, "connect_send")
          /\ UNCHANGED error
       \/ /\ Fault(s, "find_one")
          /\ UNCHANGED board
    /\ UNCHANGED <<room_name, result, games_collection, groups, outbox, accepted>>

\* await self.send_game_state(), the last statement of connect.  The send
\* may raise (the socket is gone).
ConnectSend(s) ==
    /\ pc[s] = "connect_send"
    /\ Scheduled(s)
    /\ \/ /\ send_game_state(s)
          /\ Goto(s, "ready")
          /\ UNCHANGED error
       \/ /\ Fault(s, "send")
          /\ UNCHANGED outbox
    /\ UNCHANGED <<room_name, board, result, games_collection, groups, accepted>>

----------------------------------------------------------------------------
\* disconnect

\* Disconnect, had it deleted the document of a room that its last
\* consumer leaves.
DisconnectCleansUp(s) ==
    /\ pc[s] = "ready"
    /\ Scheduled(s)
    /\ groups' = [groups EXCEPT ![room_name[s]] = @ \ {s}]
    /\ games_collection' =
          [games_collection EXCEPT ![room_name[s]] =
              IF groups[room_name[s]] \subseteq {s} THEN {} ELSE @]
    /\ Goto(s, "closed")
    /\ UNCHANGED <<room_name, board, result, outbox, error, accepted>>

\* await group_discard
Disconnect(s) ==
    /\ pc[s] = "ready"
    /\ Scheduled(s)
    /\ groups' = [groups EXCEPT ![room_name[s]] = @ \ {s}]
    /\ Goto(s, "closed")
    /\ UNCHANGED <<room_name, board, result, games_collection, outbox, error, accepted>>

----------------------------------------------------------------------------
\* receive

\* AfterValueError, had the except clause no return: receive falls through
\* to update_one.
AfterValueErrorFallsThrough == "update_one"

\* Where receive goes on after push_san raised ValueError: it returns.
AfterValueError == "ready"

\* Lines 39-47: push_san(move) on the consumer's own board; on ValueError
\* print and return.
Receive(s, m) ==
    /\ pc[s] = "ready"
    /\ Scheduled(s)
    /\ IF push_san_raises(board[s], m)
       THEN /\ Goto(s, AfterValueError)
            /\ UNCHANGED board
            /\ UNCHANGED accepted
       ELSE /\ accepted < MaxMoves
            /\ board' = [board EXCEPT ![s] = push(board[s], m)]
            /\ accepted' = accepted + 1
            /\ Goto(s, "update_one")
    /\ UNCHANGED <<room_name, result, games_collection, groups, outbox, error>>

\* update_one, had its filter not named the room: every document is set.
update_oneEveryRoom(s) ==
    games_collection' = [r \in Rooms |-> {fen(board[s])}]

\* update_one, had it been called without upsert=True: a room that has no
\* document gets none.
update_oneNoUpsert(s) ==
    games_collection' =
        [games_collection EXCEPT ![room_name[s]] = IF @ = {} THEN {} ELSE {fen(board[s])}]

\* update_one(..., {"$set": {"fen": self.board.fen()}}, upsert=True): the
\* document of the room holds the fen of this consumer's board.
update_one(s) ==
    games_collection' = [games_collection EXCEPT ![room_name[s]] = {fen(board[s])}]

\* Lines 50-54.  update_one may raise.
ReceiveSave(s) ==
    /\ pc[s] = "update_one"
    /\ Scheduled(s)
    /\ \/ /\ update_one(s)
          /\ Goto(s, "receive_send")
          /\ UNCHANGED error
       \/ /\ Fault(s, "update_one")
          /\ UNCHANGED games_collection
    /\ UNCHANGED <<room_name, board, result, groups, outbox, accepted>>

\* Line 57: await self.send_game_state()
ReceiveSend(s) ==
    /\ pc[s] = "receive_send"
    /\ Scheduled(s)
    /\ \/ /\ send_game_state(s)
          /\ Goto(s, "after_send")
          /\ UNCHANGED error
       \/ /\ Fault(s, "send")
          /\ UNCHANGED outbox
    /\ UNCHANGED <<room_name, board, result, games_collection, groups, accepted>>

\* BotsTurn, had receive called bot_move after every move.
BotsTurnAlways(bd) == TRUE

\* Line 60: the condition under which receive calls bot_move.
BotsTurn(bd) == bd.turn = BLACK

\* Lines 60-61: if self.board.turn == chess.BLACK: await self.bot_move()
ReceiveTurn(s) ==
    /\ pc[s] = "after_send"
    /\ Scheduled(s)
    /\ Goto(s, IF BotsTurn(board[s]) THEN "popen_uci" ELSE "ready")
    /\ UNCHANGED <<room_name, board, result, games_collection, groups, outbox,
                   error, accepted>>

----------------------------------------------------------------------------
\* bot_move

\* Line 73: popen_uci starts the engine process, or raises.
BotOpen(s) ==
    /\ pc[s] = "popen_uci"
    /\ Scheduled(s)
    /\ \/ /\ Goto(s, "play")
          /\ UNCHANGED error
       \/ Fault(s, "popen_uci")
    /\ UNCHANGED <<room_name, board, result, games_collection, groups, outbox, accepted>>

\* What engine.play may return as result.move on board bd: a legal move, or
\* no move when the game is over.
EngineMoves(bd) == IF is_game_over(bd) THEN {NoMove} ELSE legal_moves(bd)

\* Line 74: engine.play(self.board, Limit(time=2.0)) returns a result, or
\* raises (the engine died, or did not answer).
BotPlay(s) ==
    /\ pc[s] = "play"
    /\ Scheduled(s)
    /\ \/ /\ \E m \in EngineMoves(board[s]) : result' = [result EXCEPT ![s] = m]
          /\ Goto(s, "bot_push")
          /\ UNCHANGED error
       \/ /\ Fault(s, "play")
          /\ UNCHANGED result
    /\ UNCHANGED <<room_name, board, games_collection, groups, outbox, accepted>>

\* Line 75: self.board.push(result.move); push(None) raises.
BotPush(s) ==
    /\ pc[s] = "bot_push"
    /\ Scheduled(s)
    /\ IF result[s] = NoMove
       THEN /\ Raise(s, "push")
            /\ UNCHANGED board
       ELSE /\ board' = [board EXCEPT ![s] = push(board[s], result[s])]
            /\ Goto(s, "bot_update_one")
            /\ UNCHANGED error
    /\ UNCHANGED <<room_name, result, games_collection, groups, outbox, accepted>>

\* Lines 76-80.
BotSave(s) ==
    /\ pc[s] = "bot_update_one"
    /\ Scheduled(s)
    /\ \/ /\ update_one(s)
          /\ Goto(s, "bot_send")
          /\ UNCHANGED error
       \/ /\ Fault(s, "update_one")
          /\ UNCHANGED games_collection
    /\ UNCHANGED <<room_name, board, result, groups, outbox, accepted>>

\* Line 82: await self.send_game_state(); bot_move and receive return.
BotSend(s) ==
    /\ pc[s] = "bot_send"
    /\ Scheduled(s)
    /\ \/ /\ send_game_state(s)
          /\ Goto(s, "ready")
          /\ UNCHANGED error
       \/ /\ Fault(s, "send")
          /\ UNCHANGED outbox
    /\ UNCHANGED <<room_name, board, result, games_collection, groups, accepted>>

----------------------------------------------------------------------------
Next ==
    \E s \in Sessions :
        \/ \E r \in Rooms : Connect(s, r)
        \/ Accept(s)
        \/ ConnectLoad(s)
        \/ ConnectSend(s)
        \/ Disconnect(s)
        \/ \E m \in Inputs : Receive(s, m)
        \/ ReceiveSave(s)
        \/ ReceiveSend(s)
        \/ ReceiveTurn(s)
        \/ BotOpen(s)
        \/ BotPlay(s)
        \/ BotPush(s)
        \/ BotSave(s)
        \/ BotSend(s)

Spec == Init /\ [][Next]_vars

TypeOK ==
    /\ running \subseteq Sessions /\ Cardinality(running) <= 1
    /\ \A s \in Sessions : room_name[s] \in Rooms \cup {NoRoom}
    /\ \A r \in Rooms : Cardinality(games_collection[r]) <= 1

----------------------------------------------------------------------------
\* Properties

\* The consumers whose connect has returned and that have not ended.
Attached(r) ==
    {t \in Sessions : room_name[t] = r /\ t \in groups[r]
                      /\ pc[t] \notin {"new", "accept", "find_one", "connect_send",
                                       "closed", "crashed"}}

\* The messages sent to consumer t.
Sent(t) == {outbox[t][i] : i \in 1..Len(outbox[t])}

\* The state message of the position stored for a room (the starting
\* position, white to move, when nothing is stored).
StoredState(docs) ==
    IF docs = {}
    THEN [fen |-> [w |-> {}, b |-> {}, turn |-> WHITE], turn |-> "White"]
    ELSE LET f == CHOOSE g \in docs : TRUE
         IN [fen |-> f, turn |-> IF f.turn = BLACK THEN "Black" ELSE "White"]

\* C1: once receive has saved an accepted move and sent the new state, every
\* consumer attached to the room has been sent that state.
C1_BroadcastToRoom ==
    \A s \in Sessions :
        pc[s] = "after_send" =>
            \A t \in Attached(room_name[s]) : game_state(board[s]) \in Sent(t)

InFlight(s) == pc[s] \in {"update_one", "bot_push", "bot_update_one"}

\* C3: at most one move application is in flight in a room at any instant.
C3_OneApplicationInFlight ==
    \A r \in Rooms :
        Cardinality({s \in Sessions : room_name[s] = r /\ InFlight(s)}) <= 1

\* C3 witness: a move application is in flight while the handler of another
\* consumer of the room is suspended in its send.
C3_Witness ==
    \E s, t \in Sessions :
        /\ s # t
        /\ room_name[s] = room_name[t]
        /\ InFlight(s)
        /\ pc[t] = "after_send"

\* C4: every write to a room's document stores the position reached by one
\* legal move from the position stored before, so that the document is the
\* result of all the accepted moves in order.
C4_MovesAppliedInOrder ==
    [][\A r \in Rooms :
          games_collection'[r] # games_collection[r] =>
              \E m \in legal_moves(LoadedBoard(games_collection[r])) :
                  games_collection'[r] =
                      {fen(push(LoadedBoard(games_collection[r]), m))}]_vars

\* C5: connect writes nothing to the store, and the one message it sends is
\* the position stored for the room, or the starting position with white to
\* move when none is stored.
C5_ConnectSendsStored ==
    [][\A s \in Sessions :
          /\ (pc[s] \in {"new", "accept", "find_one", "connect_send"} /\ pc'[s] # pc[s])
                => games_collection' = games_collection
          /\ (pc[s] = "connect_send" /\ pc'[s] = "ready")
                => outbox'[s] = <<StoredState(games_collection[room_name[s]])>>]_vars

\* C5 witness: a consumer has connected to a room with a stored game and
\* was sent that game.
C5_Witness ==
    \E s \in Sessions :
        /\ pc[s] = "ready"
        /\ Len(outbox[s]) = 1
        /\ outbox[s][1].fen # fen(Board)
        /\ games_collection[room_name[s]] = {outbox[s][1].fen}

C7_EngineFailureNonFatal ==
    \A s \in Sessions :
        error[s] \in {"popen_uci", "play", "push"} => pc[s] # "crashed"

\* C8: engine.play is called only on a board with black to move on which
\* the game is not over.
C8_EngineOnlyWhenGameGoesOn ==
    \A s \in Sessions :
        (pc[s] = "bot_push" \/ error[s] = "play") =>
            board[s].turn = BLACK /\ ~is_game_over(board[s])

\* C9: after update_one has failed, the board of the consumer holds the
\* position that is stored.
C9_NoDivergenceOnStoreFailure ==
    \A s \in Sessions :
        error[s] = "update_one" =>
            fen(board[s]) = StoredState(games_collection[room_name[s]]).fen

\* C10: a move message received while black is to move leaves the board of
\* the consumer unchanged.
C10_NoClientMoveForBlack ==
    [][\A s \in Sessions :
          (pc[s] = "ready" /\ board[s].turn = BLACK) => board'[s] = board[s]]_vars


\* C11: a step of a consumer changes neither the document of another room
\* nor the board or the messages of a consumer of another room.
C11_RoomsIndependent ==
    [][\A s \in Sessions :
          pc'[s] # pc[s] =>
              /\ \A r \in Rooms :
                    r # room_name'[s] => games_collection'[r] = games_collection[r]
              /\ \A t \in Sessions :
                    room_name[t] # room_name'[s] =>
                        board'[t] = board[t] /\ outbox'[t] = outbox[t]]_vars

\* C11 witness: two rooms hold different games, each played by a consumer
\* of its own.
C11_Witness ==
    \E s, t \in Sessions :
        /\ room_name[s] # NoRoom /\ room_name[t] # NoRoom
        /\ room_name[s] # room_name[t]
        /\ games_collection[room_name[s]] = {fen(board[s])}
        /\ games_collection[room_name[t]] = {fen(board[t])}
        /\ fen(board[s]) # fen(board[t])


\* No handler of a consumer of room r is running or suspended.
Quiet(r) ==
    \A s \in Sessions : room_name[s] = r => pc[s] \in Idle

\* C12: between two moves (no handler of the room is running), the position
\* a move leads to does not depend on which attached consumer sends it, nor
\* on how many are attached: for every move, every attached consumer either
\* rejects it or reaches the same position with it.
C12_SenderIndependent ==
    \A r \in Rooms :
        Quiet(r) =>
            \A s, t \in Attached(r) : \A m \in Moves :
                /\ push_san_raises(board[s], m) = push_san_raises(board[t], m)
                /\ ~push_san_raises(board[s], m) =>
                      fen(push(board[s], m)) = fen(push(board[t], m))


\* The last message sent to consumer s.
LastSent(s) == outbox[s][Len(outbox[s])]

\* C13: the order of a player move that leaves black to move, step by step.
\* The position P1 of the player move is stored, then sent; the engine is
\* called on the board of the message P1, black to move; its reply is pushed
\* giving P2 with white to move; P2 is stored; then P2 is sent as the next
\* message after P1.
C13_MoveThenReply ==
    [][\A s \in Sessions :
          /\ (pc[s] = "update_one" /\ pc'[s] = "receive_send") =>
                games_collection'[room_name[s]] = {fen(board[s])}
          /\ (pc[s] = "receive_send" /\ pc'[s] = "after_send") =>
                /\ games_collection[room_name[s]] = {fen(board[s])}
                /\ outbox'[s] = Append(outbox[s], game_state(board[s]))
          /\ (pc[s] = "play" /\ pc'[s] = "bot_push") =>
                /\ LastSent(s) = game_state(board[s])
                /\ board[s].turn = BLACK
                /\ board'[s] = board[s]
          /\ (pc[s] = "bot_push" /\ pc'[s] = "bot_update_one") =>
                /\ LastSent(s) = game_state(board[s])
                /\ board'[s] = push(board[s], result[s])
                /\ board'[s].turn = WHITE
                /\ outbox'[s] = outbox[s]
          /\ (pc[s] = "bot_update_one" /\ pc'[s] = "bot_send") =>
                /\ games_collection'[room_name[s]] = {fen(board[s])}
                /\ outbox'[s] = outbox[s]
          /\ (pc[s] = "bot_send" /\ pc'[s] = "ready") =>
                /\ games_collection[room_name[s]] = {fen(board[s])}
                /\ LastSent(s).turn = "Black"
                /\ fen(push(set_fen(LastSent(s).fen), result[s])) = fen(board[s])
                /\ outbox'[s] = Append(outbox[s], game_state(board[s]))]_vars

\* C13 witness: a consumer was sent P1 with black to move and then P2, the
\* engine's reply, with white to move, and P2 is stored.
C13_Witness ==
    \E s \in Sessions :
        /\ pc[s] = "ready"
        /\ Len(outbox[s]) >= 3
        /\ outbox[s][Len(outbox[s]) - 1].turn = "Black"
        /\ LastSent(s) = game_state(board[s])
        /\ LastSent(s).turn = "White"
        /\ games_collection[room_name[s]] = {fen(board[s])}


C15_RejectionReported ==
    \A s \in Sessions : \A m \in Inputs :
        (pc[s] = "ready" /\ Scheduled(s) /\ push_san_raises(board[s], m)) =>
            ENABLED (/\ Receive(s, m)
                     /\ Len(outbox'[s]) = Len(outbox[s]) + 1
                     /\ \A t \in Sessions \ {s} : outbox'[t] = outbox[t])


\* C16: once the send of the state after a move has failed for consumer s,
\* s is out of the room group, the room still has a stored position, the
\* other attached consumers have been sent the state, and no engine reply
\* is left undone (the board of s does not rest with black to move in a
\* game that goes on).
C16_SendFailureIsolated ==
    \A s \in Sessions :
        (error[s] = "send" /\ board[s].move_stack # <<>>) =>
            /\ s \notin groups[room_name[s]]
            /\ games_collection[room_name[s]] # {}
            /\ \A t \in Attached(room_name[s]) : game_state(board[s]) \in Sent(t)
            /\ ~(board[s].turn = BLACK /\ ~is_game_over(board[s]))


\* C17: whenever no handler of a room is running (and none has ended on an
\* exception), the board of every attached consumer holds the position
\* stored for the room (the starting position when none is stored).
C17_OneViewPerRoom ==
    \A r \in Rooms :
        (Quiet(r) /\ \A s \in Sessions : room_name[s] = r => pc[s] # "crashed") =>
            \A s \in Attached(r) :
                fen(board[s]) = StoredState(games_collection[r]).fen


\* C18: a state message sent after a move carries the position that the
\* room's document holds when it is sent; and in a room with one consumer,
\* between a send and the next move the document holds the position of the
\* last message.
C18_PersistBeforeSend ==
    [][\A s \in Sessions :
          /\ (pc[s] \in {"receive_send", "bot_send"} /\ outbox'[s] # outbox[s]) =>
                /\ Len(outbox'[s]) = Len(outbox[s]) + 1
                /\ games_collection[room_name[s]] = {outbox'[s][Len(outbox'[s])].fen}
          /\ (/\ pc[s] \in {"ready", "after_send", "popen_uci", "play"}
              /\ Len(outbox[s]) >= 2
              /\ \A t \in Sessions \ {s} : room_name[t] # room_name[s]) =>
                games_collection[room_name[s]] = {LastSent(s).fen}]_vars

\* C18 witness: the only consumer of a room has been sent the position of
\* its move and the position of the engine's reply, and the last is stored.
C18_Witness ==
    \E s \in Sessions :
        /\ \A t \in Sessions \ {s} : room_name[t] # room_name[s]
        /\ pc[s] = "ready"
        /\ Len(outbox[s]) = 3
        /\ Len(board[s].move_stack) = 2
        /\ games_collection[room_name[s]] = {LastSent(s).fen}


\* The state message of connect has been sent to consumer s.
Greeted(s) == pc[s] \notin {"new", "accept", "find_one", "connect_send"}

\* A move is on the board of consumer s whose state message is not sent yet.
Unsent(s) == pc[s] \in {"update_one", "receive_send", "bot_update_one", "bot_send"}

====
